---- MODULE Spec2Model ----
(***************************************************************************)
(* Order-number matching of an Excel sheet against the pages of a PDF      *)
(* (matcher.py, io_utils.py, main.py).                                     *)
(*                                                                         *)
(* Text is a sequence of one-character strings.  Two characters that have  *)
(* no printable form are written as tokens: "ZWSP" is U+200B (zero width   *)
(* space) and "NBSP" is U+00A0 (no-break space).  A cell or argument that  *)
(* is pandas NaN / None is the value NA, the one-token text "NaN".         *)
(***************************************************************************)
EXTENDS Integers, Sequences, FiniteSets, TLC

VARIABLES
    call,            \* the pure function under call and its arguments
    ret,             \* sequence of the values returned so far
    sheet,           \* the 주문번호 column of the Excel file, one cell per row
    pages,           \* List[PageInfo]: per page its norm_order_candidates
    use_fuzzy,       \* ProcessingWorker.use_fuzzy
    threshold,       \* ProcessingWorker.threshold
    pc,              \* position of ProcessingWorker.run
    df,              \* DataFrame returned by load_excel: rows [idx, order]
    pos,             \* number of rows df.iterrows() has delivered
    assignments,     \* {excel_row_idx: page_idx}
    match_details,   \* {excel_row_idx: {page_idx, score, reason}}
    used_pages,      \* set of consumed page indices
    scored,          \* the (row_idx, page_idx) pairs calc_match_score was called on
    leftover_pages,  \* sorted(all_pages - used_pages)
    ordered_indices, \* final page order handed to reorder_pdf
    text_lens,       \* per PDF page, the length of its extracted, stripped text
    excel_loadable,  \* the Excel file can be read and has an order-number column
    signals,         \* the error / finished signals the worker has emitted
    out_pdf,         \* the PDF files written, each the sequence of its pages
    out_csv,         \* the report files written, each the sequence of its rows
    folder,          \* the PDF files of the searched folder, in os.walk order
    order_number,    \* the order number searched for
    use_multiprocess,\* argument of search_order_in_folder
    cpu_count,       \* multiprocessing.cpu_count()
    stop,            \* what stop_flag() returns now
    spc,             \* position of search_order_in_folder
    todo,            \* files no worker (or loop step) has taken yet, in order
    running,         \* chunks of files being searched by pool workers
    outq,            \* results of finished units that imap_unordered has not yielded yet
    results,         \* the results list of the search
    searched,        \* paths of the files whose search ran to its end
    dropped,         \* results the loop received but did not append
    killed,          \* paths of units cut off by pool.terminate()
    stop_seen        \* the search saw stop_flag() true

fnVars == <<call, ret>>
outVars == <<signals, out_pdf, out_csv>>
runVars == <<sheet, pages, use_fuzzy, threshold, pc, df, pos, assignments,
             match_details, used_pages, scored, leftover_pages, ordered_indices,
             text_lens, excel_loadable, signals, out_pdf, out_csv>>
searchVars == <<folder, order_number, use_multiprocess, cpu_count, stop, spc, todo,
                running, outq, results, searched, dropped, killed, stop_seen>>
vars == <<call, ret, sheet, pages, use_fuzzy, threshold, pc, df, pos, assignments,
          match_details, used_pages, scored, leftover_pages, ordered_indices,
          text_lens, excel_loadable, signals, out_pdf, out_csv,
          folder, order_number, use_multiprocess, cpu_count, stop, spc, todo,
          running, outq, results, searched, dropped, killed, stop_seen>>

----------------------------------------------------------------------------
(* Bounds *)

MaxLen == 3        \* longest text given to normalize_order_number
MaxFill == 9       \* most digits after the leading digits of a phone text
MaxIdLen == 2      \* longest normalized order number given to the scorer
MaxCands == 2      \* most order candidates of one page given to the scorer
MaxRows == 3       \* most rows in the Excel sheet
MaxPages == 3      \* most pages in the PDF
MaxSize == 5       \* most rows and pages together

----------------------------------------------------------------------------
(* Text helpers *)

NA == <<"NaN">>

LowerChars == <<"a", "b", "e", "n", "o">>
UpperChars == <<"A", "B", "E", "N", "O">>
DigitChars == {"0", "1", "2", "3", "4", "5", "6", "7", "8", "9"}

SetOf(s) == {s[i] : i \in 1..Len(s)}
IsLower(c) == c \in SetOf(LowerChars)
IsUpper(c) == c \in SetOf(UpperChars)
IsDigit(c) == c \in DigitChars
IsSpace(c) == c \in {" ", "NBSP"}

IndexIn(c, s) == CHOOSE i \in 1..Len(s) : s[i] = c
ToUpper(c) == IF IsLower(c) THEN UpperChars[IndexIn(c, LowerChars)] ELSE c
ToLower(c) == IF IsUpper(c) THEN LowerChars[IndexIn(c, UpperChars)] ELSE c

Map(f(_), s) == [i \in 1..Len(s) |-> f(s[i])]
upper(s) == Map(ToUpper, s)
lower(s) == Map(ToLower, s)

RECURSIVE Filter(_, _)
Filter(keep(_), s) ==
    IF s = <<>> THEN <<>>
    ELSE (IF keep(Head(s)) THEN <<Head(s)>> ELSE <<>>) \o Filter(keep, Tail(s))

RECURSIVE lstrip(_)
lstrip(s) == IF s # <<>> /\ IsSpace(Head(s)) THEN lstrip(Tail(s)) ELSE s

RECURSIVE rstrip(_)
rstrip(s) ==
    IF s # <<>> /\ IsSpace(s[Len(s)]) THEN rstrip(SubSeq(s, 1, Len(s) - 1)) ELSE s

strip(s) == rstrip(lstrip(s))

startswith(s, p) == Len(s) >= Len(p) /\ SubSeq(s, 1, Len(p)) = p

\* `not text or pd.isna(text)`
IsBlank(text) == text = NA \/ text = <<>>

----------------------------------------------------------------------------
(* Normalizer *)

NotZeroWidth(c) == c # "ZWSP"
NbspToSpace(c) == IF c = "NBSP" THEN " " ELSE c

remove_special_chars(text) ==
    IF text = <<>> THEN <<>>
    ELSE Map(NbspToSpace, Filter(NotZeroWidth, text))

IsAsciiAlnum(c) == IsLower(c) \/ IsUpper(c) \/ IsDigit(c)

RECURSIVE DropFirstNonAlnum(_)
DropFirstNonAlnum(s) ==
    IF s = <<>> THEN <<>>
    ELSE IF IsAsciiAlnum(Head(s)) THEN <<Head(s)>> \o DropFirstNonAlnum(Tail(s))
    ELSE Tail(s)

\* normalize_order_number with re.sub(..., count=1)
normalize_order_number_sub1(text) ==
    IF IsBlank(text) THEN <<>>
    ELSE upper(DropFirstNonAlnum(remove_special_chars(strip(text))))

normalize_order_number(text) ==
    IF IsBlank(text) THEN <<>>
    ELSE upper(Filter(IsAsciiAlnum, remove_special_chars(strip(text))))

\* normalize_phone with the 10-11 digit test of the first rule dropped
normalize_phone_anylen(text) ==
    IF IsBlank(text) THEN <<>>
    ELSE LET numbers == Filter(IsDigit, remove_special_chars(strip(text)))
         IN  IF startswith(numbers, <<"0", "1", "0">>) THEN numbers
             ELSE IF startswith(numbers, <<"1", "0">>) /\ Len(numbers) = 10
                  THEN <<"0">> \o numbers
             ELSE IF startswith(numbers, <<"1", "0">>) /\ Len(numbers) = 9
                  THEN <<"0">> \o numbers
             ELSE IF Len(numbers) = 8 THEN <<"0", "1", "0">> \o numbers
             ELSE IF Len(numbers) = 7 THEN <<"0", "1", "0">> \o numbers
             ELSE <<>>

normalize_phone(text) ==
    IF IsBlank(text) THEN <<>>
    ELSE LET numbers == Filter(IsDigit, remove_special_chars(strip(text)))
         IN  IF startswith(numbers, <<"0", "1", "0">>) /\ Len(numbers) \in {10, 11}
                 THEN numbers
             ELSE IF startswith(numbers, <<"1", "0">>) /\ Len(numbers) = 10
                  THEN <<"0">> \o numbers
             ELSE IF startswith(numbers, <<"1", "0">>) /\ Len(numbers) = 9
                  THEN <<"0">> \o numbers
             ELSE IF Len(numbers) = 8 THEN <<"0", "1", "0">> \o numbers
             ELSE IF Len(numbers) = 7 THEN <<"0", "1", "0">> \o numbers
             ELSE <<>>

----------------------------------------------------------------------------
(* Scorer *)

Max(a, b) == IF a >= b THEN a ELSE b

\* Longest common subsequence of two texts
RECURSIVE LCS(_, _)
LCS(s, t) ==
    IF s = <<>> \/ t = <<>> THEN 0
    ELSE IF Head(s) = Head(t) THEN 1 + LCS(Tail(s), Tail(t))
    ELSE Max(LCS(Tail(s), t), LCS(s, Tail(t)))

RECURSIVE GCD(_, _)
GCD(a, b) == IF b = 0 THEN a ELSE GCD(b, a % b)

\* A score is an exact fraction [n, d] in lowest terms (Python int or float)
Frac(n, d) == LET g == GCD(n, d) IN [n |-> n \div g, d |-> d \div g]
Score0 == Frac(0, 1)
Score100 == Frac(100, 1)
Less(x, y) == x.n * y.d < y.n * x.d
AtLeast(x, k) == x.n >= k * x.d

\* rapidfuzz fuzz.ratio: normalized Indel similarity, 100 * 2*LCS / (len1 + len2)
fuzz_ratio(s, t) ==
    IF Len(s) + Len(t) = 0 THEN Score100
    ELSE Frac(200 * LCS(s, t), Len(s) + Len(t))

\* f'{x:.0f}': nearest integer, ties to even
Round0(x) ==
    LET q == x.n \div x.d
        r == x.n % x.d
    IN  IF 2 * r < x.d THEN q
        ELSE IF 2 * r > x.d THEN q + 1
        ELSE IF q % 2 = 0 THEN q ELSE q + 1

\* the similarity of the first candidate instead of the maximum
MaxRatio_first(excel_order, cands) ==
    IF cands = <<>> THEN Score0 ELSE fuzz_ratio(excel_order, Head(cands))

RECURSIVE MaxRatio(_, _)
MaxRatio(excel_order, cands) ==
    IF cands = <<>> THEN Score0
    ELSE LET h == fuzz_ratio(excel_order, Head(cands))
             t == MaxRatio(excel_order, Tail(cands))
         IN  IF Less(h, t) THEN t ELSE h

Result(score, reason) == [score |-> score, reason |-> reason]

\* calc_match_score whose exact test looks at the first candidate only
calc_match_score_first(excel_order, page_info, fuzzy, thr) ==
    IF excel_order = <<>> \/ page_info = <<>> THEN Result(Score0, "no_order_data")
    ELSE IF excel_order = Head(page_info) THEN Result(Score100, "order_exact")
    ELSE IF ~fuzzy THEN Result(Score0, "no_match")
    ELSE LET best_order_sim == MaxRatio(excel_order, page_info)
         IN  IF AtLeast(best_order_sim, thr)
             THEN Result(best_order_sim,
                         "order_fuzzy(" \o ToString(Round0(best_order_sim)) \o "%)")
             ELSE Result(Score0, "no_match")

calc_match_score(excel_order, page_info, fuzzy, thr) ==
    IF excel_order = <<>> \/ page_info = <<>> THEN Result(Score0, "no_order_data")
    ELSE IF excel_order \in SetOf(page_info) THEN Result(Score100, "order_exact")
    ELSE IF ~fuzzy THEN Result(Score0, "no_match")
    ELSE LET best_order_sim == MaxRatio(excel_order, page_info)
         IN  IF AtLeast(best_order_sim, thr)
             THEN Result(best_order_sim,
                         "order_fuzzy(" \o ToString(Round0(best_order_sim)) \o "%)")
             ELSE Result(Score0, "no_match")

----------------------------------------------------------------------------
(* Input domains *)

RECURSIVE SeqsUpTo(_, _)
SeqsUpTo(S, n) ==
    IF n = 0 THEN {<<>>}
    ELSE LET shorter == SeqsUpTo(S, n - 1)
         IN  shorter \cup {Append(s, x) : s \in {t \in shorter : Len(t) = n - 1}, x \in S}

\* QSpinBox threshold_spin: 50..100
Thresholds == {50, 66, 67, 100}

OrderTexts == SeqsUpTo({"a", "A", "1", "-", " ", "NBSP", "ZWSP"}, MaxLen) \cup {NA}

RECURSIVE Repeat(_, _)
Repeat(c, n) == IF n = 0 THEN <<>> ELSE <<c>> \o Repeat(c, n - 1)

PhoneHeads == SeqsUpTo({"0", "1"}, 3)
PhonePlain == {h \o Repeat("7", k) : h \in PhoneHeads, k \in 0..MaxFill}
PhoneTexts ==
    PhonePlain
      \cup {h \o <<"-">> \o Repeat("7", k) : h \in PhoneHeads, k \in 0..MaxFill}
      \cup {<<" ">> \o d \o <<"NBSP">> : d \in PhonePlain}
      \cup {NA}

ScorerIds == SeqsUpTo({"A", "1"}, MaxIdLen)
ScorerCands == SeqsUpTo(ScorerIds \ {<<>>}, MaxCands)

----------------------------------------------------------------------------
(* No folder search and no processing run is started while a single       *)
(* function is exercised                                                   *)

SearchIdle ==
    /\ folder = <<>>
    /\ order_number = <<>>
    /\ use_multiprocess = FALSE
    /\ cpu_count = 1
    /\ stop = FALSE
    /\ spc = "idle"
    /\ todo = <<>>
    /\ running = {}
    /\ outq = <<>>
    /\ results = <<>>
    /\ searched = {}
    /\ dropped = <<>>
    /\ killed = {}
    /\ stop_seen = FALSE

RunIdle ==
    /\ sheet = <<>>
    /\ pages = <<>>
    /\ use_fuzzy = FALSE
    /\ threshold = 80
    /\ pc = "idle"
    /\ df = <<>>
    /\ pos = 0
    /\ assignments = <<>>
    /\ match_details = <<>>
    /\ used_pages = {}
    /\ scored = {}
    /\ leftover_pages = <<>>
    /\ ordered_indices = <<>>
    /\ text_lens = <<>>
    /\ excel_loadable = FALSE
    /\ signals = <<>>
    /\ out_pdf = <<>>
    /\ out_csv = <<>>

----------------------------------------------------------------------------
(* normalize_phone(text) *)

InitPhone ==
    /\ call \in {[fn |-> "normalize_phone", text |-> t] : t \in PhoneTexts}
    /\ ret = <<>>
    /\ RunIdle
    /\ SearchIdle

CallNormalizePhone ==
    /\ call.fn = "normalize_phone"
    /\ ret = <<>>
    /\ ret' = <<normalize_phone(call.text)>>
    /\ UNCHANGED <<call, runVars, searchVars>>

SpecPhone == InitPhone /\ [][CallNormalizePhone]_vars

(* normalize_order_number(text), then again on its own result *)

InitOrderNumber ==
    /\ call \in {[fn |-> "normalize_order_number", text |-> t] : t \in OrderTexts}
    /\ ret = <<>>
    /\ RunIdle
    /\ SearchIdle

CallNormalizeOrderNumber ==
    /\ call.fn = "normalize_order_number"
    /\ Len(ret) < 2
    /\ ret' = Append(ret, normalize_order_number(
                             IF ret = <<>> THEN call.text ELSE ret[Len(ret)]))
    /\ UNCHANGED <<call, runVars, searchVars>>

SpecOrderNumber == InitOrderNumber /\ [][CallNormalizeOrderNumber]_vars

(* calc_match_score("", "", "", excel_order, page_info, use_fuzzy, threshold) *)

InitScorer ==
    /\ call \in {[fn |-> "calc_match_score", excel_order |-> o, page_info |-> c,
                  use_fuzzy |-> f, threshold |-> t] :
                     o \in ScorerIds, c \in ScorerCands, f \in BOOLEAN, t \in Thresholds}
    /\ ret = <<>>
    /\ RunIdle
    /\ SearchIdle

CallCalcMatchScore ==
    /\ call.fn = "calc_match_score"
    /\ ret = <<>>
    /\ ret' = <<calc_match_score(call.excel_order, call.page_info,
                                 call.use_fuzzy, call.threshold)>>
    /\ UNCHANGED <<call, runVars, searchVars>>

SpecScorer == InitScorer /\ [][CallCalcMatchScore]_vars

----------------------------------------------------------------------------
(* Excel loader: io_utils.load_excel, the 주문번호 column only *)

Row(idx, order) == [idx |-> idx, order |-> order]

\* dropna, astype(str).str.strip(), then drop '', 'nan', 'none';
\* the index labels of the rows that stay are not renumbered
KeepCell(cell) ==
    /\ cell # NA
    /\ strip(cell) # <<>>
    /\ lower(strip(cell)) # <<"n", "a", "n">>
    /\ lower(strip(cell)) # <<"n", "o", "n", "e">>

RECURSIVE LoadFrom(_, _)
LoadFrom(cells, i) ==
    IF i > Len(cells) THEN <<>>
    ELSE (IF KeepCell(cells[i]) THEN <<Row(i - 1, strip(cells[i]))>> ELSE <<>>)
             \o LoadFrom(cells, i + 1)

load_excel(cells) == LoadFrom(cells, 1)

----------------------------------------------------------------------------
(* Assignment engine: matcher.match_rows_to_pages *)

\* dict[key] = value
Put(dict, key, value) ==
    [k \in (DOMAIN dict) \cup {key} |-> IF k = key THEN value ELSE dict[k]]

Values(dict) == {dict[k] : k \in DOMAIN dict}

Detail(page_idx, score, reason) ==
    [page_idx |-> page_idx, score |-> score, reason |-> reason]

\* the scan without the skip of used pages
IsUsed_never(page_index, used) == FALSE

\* `if page_info.index in used_pages: continue`
IsUsed(page_index, used) == page_index \in used

\* the loop over the pages without the `break` on score 100
RECURSIVE ScanPages_noBreak(_, _, _, _, _, _, _, _)
ScanPages_noBreak(excel_order, pgs, used, fuzzy, thr, p, best, seen) ==
    IF p >= Len(pgs) THEN [best |-> best, seen |-> seen]
    ELSE IF IsUsed(p, used)
         THEN ScanPages_noBreak(excel_order, pgs, used, fuzzy, thr, p + 1, best, seen)
    ELSE LET r == calc_match_score(excel_order, pgs[p + 1], fuzzy, thr)
             seen2 == seen \cup {p}
         IN  IF Less(best.score, r.score)
             THEN ScanPages_noBreak(excel_order, pgs, used, fuzzy, thr, p + 1,
                                    Detail(p, r.score, r.reason), seen2)
             ELSE ScanPages_noBreak(excel_order, pgs, used, fuzzy, thr, p + 1,
                                    best, seen2)

\* The loop over the pages for one row; p is the 0-based page index, best the
\* (best_page, best_score, best_reason) so far, seen the pages scored so far
RECURSIVE ScanPages(_, _, _, _, _, _, _, _)
ScanPages(excel_order, pgs, used, fuzzy, thr, p, best, seen) ==
    IF p >= Len(pgs) THEN [best |-> best, seen |-> seen]
    ELSE IF IsUsed(p, used)
         THEN ScanPages(excel_order, pgs, used, fuzzy, thr, p + 1, best, seen)
    ELSE LET r == calc_match_score(excel_order, pgs[p + 1], fuzzy, thr)
             seen2 == seen \cup {p}
         IN  IF Less(best.score, r.score)
             THEN IF r.score = Score100
                  THEN [best |-> Detail(p, r.score, r.reason), seen |-> seen2]
                  ELSE ScanPages(excel_order, pgs, used, fuzzy, thr, p + 1,
                                 Detail(p, r.score, r.reason), seen2)
             ELSE ScanPages(excel_order, pgs, used, fuzzy, thr, p + 1, best, seen2)

\* `if best_score >= 0`
IsMatch_ge(best) == ~Less(best.score, Score0)

\* `if best_score > 0`
IsMatch(best) == Less(Score0, best.score)

\* the loop body without the `if not excel_order` branch
MatchOneRow_noEmptyCheck(order, pgs, used, fuzzy, thr) ==
    LET excel_order == normalize_order_number(order)
        scan == ScanPages(excel_order, pgs, used, fuzzy, thr, 0,
                          Detail(-1, Score0, "no_match"), {})
    IN  IF IsMatch(scan.best)
        THEN [assigned |-> TRUE, seen |-> scan.seen, detail |-> scan.best]
        ELSE [assigned |-> FALSE, seen |-> scan.seen,
              detail |-> Detail(-1, Score0, "no_match")]

\* The body of the loop over the rows: what one row adds to the result
MatchOneRow(order, pgs, used, fuzzy, thr) ==
    LET excel_order == normalize_order_number(order)
    IN  IF excel_order = <<>>
        THEN [assigned |-> FALSE, seen |-> {},
              detail |-> Detail(-1, Score0, "empty_order_number")]
        ELSE LET scan == ScanPages(excel_order, pgs, used, fuzzy, thr, 0,
                                   Detail(-1, Score0, "no_match"), {})
             IN  IF IsMatch(scan.best)
                 THEN [assigned |-> TRUE, seen |-> scan.seen, detail |-> scan.best]
                 ELSE [assigned |-> FALSE, seen |-> scan.seen,
                       detail |-> Detail(-1, Score0, "no_match")]

\* the rows delivered last to first
NextRow_reversed(frame, done) == frame[Len(frame) - done]

\* df.iterrows(): the row delivered after `done` rows
NextRow(frame, done) == frame[done + 1]

Min(S) == CHOOSE x \in S : \A y \in S : x <= y

RECURSIVE sorted(_)
sorted(S) == IF S = {} THEN <<>> ELSE <<Min(S)>> \o sorted(S \ {Min(S)})

\* `sorted(all_pages)`
Leftover_all(pgs, used) == sorted({p \in 0..(Len(pgs) - 1) : TRUE})

RECURSIVE Reverse(_)
Reverse(s) == IF s = <<>> THEN <<>> ELSE Append(Reverse(Tail(s)), Head(s))

\* `sorted(all_pages - used_pages, reverse=True)`
Leftover_descending(pgs, used) ==
    Reverse(sorted({p \in 0..(Len(pgs) - 1) : p \notin used}))

\* `sorted(all_pages - used_pages)`
Leftover(pgs, used) == sorted({p \in 0..(Len(pgs) - 1) : p \notin used})

\* main.py: `for row_idx in range(len(df)): if row_idx in assignments: ...`
RECURSIVE AssignedFrom(_, _, _)
AssignedFrom(row_idx, n, asg) ==
    IF row_idx >= n THEN <<>>
    ELSE (IF row_idx \in DOMAIN asg THEN <<asg[row_idx]>> ELSE <<>>)
             \o AssignedFrom(row_idx + 1, n, asg)

OrderedIndices(n, asg, leftover) == AssignedFrom(0, n, asg) \o leftover

----------------------------------------------------------------------------
(* ProcessingWorker.run *)

SamplePages == 5
MinTextChars == 50

\* text_lens of a PDF that pdfplumber cannot open
Unreadable == <<-1>>

is_text_based_pdf_always(lens) == TRUE

\* at least 80% of the first sample pages have more than 50 characters of
\* text; any exception counts as no text
is_text_based_pdf(lens) ==
    IF lens = Unreadable THEN FALSE
    ELSE LET check_pages == Min({SamplePages, Len(lens)})
             text_found == Cardinality({i \in 1..check_pages : lens[i] > MinTextChars})
         IN  10 * text_found >= 8 * check_pages

Cells == {NA, <<"a", "-", "1">>, <<"A", "2">>, <<"-">>}
PageCandidates == {<<>>, <<<<"A", "1">>>>, <<<<"A", "2">>>>, <<<<"A", "1", "2">>>>}
RunThresholds == {50, 80}

Init ==
    /\ call = [fn |-> "run"]
    /\ ret = <<>>
    /\ SearchIdle
    /\ sheet \in SeqsUpTo(Cells, MaxRows)
    /\ pages \in SeqsUpTo(PageCandidates, MaxPages)
    /\ Len(sheet) + Len(pages) <= MaxSize
    /\ use_fuzzy \in BOOLEAN
    /\ threshold \in RunThresholds
    /\ pc = "load"
    /\ df = <<>>
    /\ pos = 0
    /\ assignments = <<>>
    /\ match_details = <<>>
    /\ used_pages = {}
    /\ scored = {}
    /\ leftover_pages = <<>>
    /\ ordered_indices = <<>>
    /\ text_lens = [i \in 1..Len(pages) |-> MinTextChars + 1]
    /\ excel_loadable = TRUE
    /\ signals = <<>>
    /\ out_pdf = <<>>
    /\ out_csv = <<>>

\* load_excel raises ValueError on a file it cannot read or without an order
\* number column; run() reports any exception as an error and ends
LoadExcel ==
    /\ pc = "load"
    /\ IF excel_loadable
       THEN /\ df' = load_excel(sheet)
            /\ pc' = "match"
            /\ signals' = signals
       ELSE /\ df' = df
            /\ pc' = "done"
            /\ signals' = Append(signals, "error")
    /\ UNCHANGED <<fnVars, searchVars, text_lens, excel_loadable, out_pdf, out_csv,
                   sheet, pages, use_fuzzy, threshold, pos, assignments,
                   match_details, used_pages, scored, leftover_pages, ordered_indices>>

MatchRow ==
    /\ pc = "match"
    /\ pos < Len(df)
    /\ LET row == NextRow(df, pos)
           out == MatchOneRow(row.order, pages, used_pages, use_fuzzy, threshold)
       IN  /\ assignments' = IF out.assigned
                             THEN Put(assignments, row.idx, out.detail.page_idx)
                             ELSE assignments
           /\ used_pages' = IF out.assigned
                            THEN used_pages \cup {out.detail.page_idx}
                            ELSE used_pages
           /\ match_details' = Put(match_details, row.idx, out.detail)
           /\ scored' = scored \cup {<<row.idx, p>> : p \in out.seen}
    /\ pos' = pos + 1
    /\ UNCHANGED <<fnVars, searchVars, text_lens, excel_loadable, outVars, sheet, pages, use_fuzzy, threshold, pc, df,
                   leftover_pages, ordered_indices>>

MatchReturn ==
    /\ pc = "match"
    /\ pos = Len(df)
    /\ leftover_pages' = Leftover(pages, used_pages)
    /\ pc' = "order"
    /\ UNCHANGED <<fnVars, searchVars, text_lens, excel_loadable, outVars, sheet, pages, use_fuzzy, threshold, df, pos, assignments,
                   match_details, used_pages, scored, ordered_indices>>

BuildOrder ==
    /\ pc = "order"
    /\ ordered_indices' = OrderedIndices(Len(df), assignments, leftover_pages)
    /\ pc' = "ordered"
    /\ UNCHANGED <<fnVars, searchVars, text_lens, excel_loadable, outVars, sheet, pages, use_fuzzy, threshold, df, pos, assignments,
                   match_details, used_pages, scored, leftover_pages>>

Next == LoadExcel \/ MatchRow \/ MatchReturn \/ BuildOrder

Spec == Init /\ [][Next]_vars

----------------------------------------------------------------------------
(* ProcessingWorker.run from the text check to the finished signal *)

\* reader.pages[idx]: a negative index counts from the end
IndexError(n, indices) == \E k \in 1..Len(indices) : indices[k] >= n \/ indices[k] < -n
PageAt(source_pages, idx) ==
    IF idx >= 0 THEN source_pages[idx + 1] ELSE source_pages[Len(source_pages) + idx + 1]

reorder_pdf_inSourceOrder(source_pages, indices) ==
    LET used == {PageAt(source_pages, indices[k]) : k \in 1..Len(indices)}
    IN  SelectSeq(source_pages, LAMBDA pg : pg \in used)

\* the pages written to out_pdf_path, for indices without IndexError
reorder_pdf(source_pages, indices) ==
    [k \in 1..Len(indices) |-> PageAt(source_pages, indices[k])]

\* reorder_pdf(pdf_path, ordered_indices, out_pdf_path) on its own
MaxSourcePages == 3    \* most pages of the source PDF given to reorder_pdf
MaxIndices == 3        \* longest index list given to reorder_pdf

PageTexts == {"p", "q"}

InitReorder ==
    /\ \E source \in SeqsUpTo(PageTexts, MaxSourcePages) :
         \E indices \in SeqsUpTo(-1..Len(source), MaxIndices) :
            call = [fn |-> "reorder_pdf", source |-> source,
                    ordered_indices |-> indices]
    /\ ret = <<>>
    /\ RunIdle
    /\ SearchIdle

CallReorderPdf ==
    /\ call.fn = "reorder_pdf"
    /\ ret = <<>>
    /\ ret' = IF IndexError(Len(call.source), call.ordered_indices)
              THEN <<[raised |-> TRUE, pages |-> <<>>]>>
              ELSE <<[raised |-> FALSE,
                      pages |-> reorder_pdf(call.source, call.ordered_indices)]>>
    /\ UNCHANGED <<call, runVars, searchVars>>

SpecReorder == InitReorder /\ [][CallReorderPdf]_vars

\* the columns of the DataFrame load_excel returns (order number only) and
\* the columns the report loop reads from each row: buyer name, phone,
\* address, order number
DataFrameColumns == {"order_number"}
RowColumnsRead == {"buyer_name", "phone", "address", "order_number"}

\* round(score, 1)
Round1(x) == Frac(Round0(Frac(10 * x.n, x.d)), 10)

DetailOf(row_idx, details) ==
    IF row_idx \in DOMAIN details THEN details[row_idx]
    ELSE Detail(-1, Score0, "no_match")

ReportRow(row_idx, frame, details) ==
    LET detail == DetailOf(row_idx, details)
    IN  [row_number |-> row_idx + 2,
         page |-> IF detail.page_idx >= 0 THEN ToString(detail.page_idx + 1)
                  ELSE "UNMATCHED",
         score |-> Round1(detail.score),
         reason |-> detail.reason,
         order |-> frame[row_idx + 1].order]

\* row['...'] raises KeyError on a column the DataFrame does not have
RowLookupRaises(frame) == Len(frame) > 0 /\ ~(RowColumnsRead \subseteq DataFrameColumns)
ReportRows(frame, details) ==
    [k \in 1..Len(frame) |-> ReportRow(k - 1, frame, details)]

\* save_report: DataFrame(rows)[columns] raises KeyError when rows is empty,
\* the frame then has no columns
SaveReportRaises(rows) == rows = <<>>

RunCells == {NA, <<"a", "-", "1">>, <<"A", "2">>}
RunPages == {<<>>, <<<<"A", "2">>>>}
TextLayouts(n) ==
    {[i \in 1..n |-> MinTextChars + 1], [i \in 1..n |-> MinTextChars],
     [i \in 1..n |-> IF i = 1 THEN 0 ELSE MinTextChars + 1], Unreadable}

InitRun ==
    /\ call = [fn |-> "run"]
    /\ ret = <<>>
    /\ SearchIdle
    /\ sheet \in SeqsUpTo(RunCells, MaxRows)
    /\ pages \in SeqsUpTo(RunPages, MaxPages)
    /\ Len(sheet) + Len(pages) <= MaxSize
    /\ text_lens \in TextLayouts(Len(pages))
    /\ excel_loadable \in BOOLEAN
    /\ use_fuzzy \in BOOLEAN
    /\ threshold = 80
    /\ pc = "check"
    /\ df = <<>>
    /\ pos = 0
    /\ assignments = <<>>
    /\ match_details = <<>>
    /\ used_pages = {}
    /\ scored = {}
    /\ leftover_pages = <<>>
    /\ ordered_indices = <<>>
    /\ signals = <<>>
    /\ out_pdf = <<>>
    /\ out_csv = <<>>

CheckPdf ==
    /\ pc = "check"
    /\ IF is_text_based_pdf(text_lens)
       THEN pc' = "load" /\ signals' = signals
       ELSE pc' = "done" /\ signals' = Append(signals, "error")
    /\ UNCHANGED <<fnVars, searchVars, text_lens, excel_loadable, out_pdf, out_csv,
                   sheet, pages, use_fuzzy, threshold, df, pos, assignments,
                   match_details, used_pages, scored, leftover_pages, ordered_indices>>

\* get_output_filenames and reorder_pdf: the output PDF is written
ReorderPdf ==
    /\ pc = "ordered"
    /\ IF IndexError(Len(pages), ordered_indices)
       THEN /\ pc' = "done"
            /\ signals' = Append(signals, "error")
            /\ out_pdf' = out_pdf
       ELSE /\ pc' = "report"
            /\ signals' = signals
            /\ out_pdf' = Append(out_pdf,
                   reorder_pdf([i \in 1..Len(pages) |-> i - 1], ordered_indices))
    /\ UNCHANGED <<fnVars, searchVars, text_lens, excel_loadable, out_csv,
                   sheet, pages, use_fuzzy, threshold, df, pos, assignments,
                   match_details, used_pages, scored, leftover_pages, ordered_indices>>

\* the report rows, save_report, and the finished signal; any exception
\* ends the run with the error signal
WriteReport ==
    /\ pc = "report"
    /\ IF RowLookupRaises(df) \/ SaveReportRaises(ReportRows(df, match_details))
       THEN /\ signals' = Append(signals, "error")
            /\ out_csv' = out_csv
       ELSE /\ signals' = Append(signals, "finished")
            /\ out_csv' = Append(out_csv, ReportRows(df, match_details))
    /\ pc' = "done"
    /\ UNCHANGED <<fnVars, searchVars, text_lens, excel_loadable, out_pdf,
                   sheet, pages, use_fuzzy, threshold, df, pos, assignments,
                   match_details, used_pages, scored, leftover_pages, ordered_indices>>

NextRun ==
    \/ CheckPdf \/ LoadExcel \/ MatchRow \/ MatchReturn \/ BuildOrder
    \/ ReorderPdf \/ WriteReport

SpecRun == InitRun /\ [][NextRun]_vars

----------------------------------------------------------------------------
(* Properties of the assignment engine, checked under Spec *)

\* match_rows_to_pages has returned
MatchDone == pc \in {"order", "ordered"}

RowPos == 1..Len(df)
PageIdx == 0..(Len(pages) - 1)
NormId(i) == normalize_order_number(df[i].order)
ScoreOn(id, p) == calc_match_score(id, pages[p + 1], use_fuzzy, threshold).score
\* the pages that score above 0 for an identifier
MatchingPages(id) == {p \in PageIdx : Less(Score0, ScoreOn(id, p))}
Unmatched(i) ==
    /\ df[i].idx \notin DOMAIN assignments
    /\ match_details[df[i].idx] = Detail(-1, Score0, "no_match")

\* C1: after match_rows_to_pages has finished, no page index is the assigned
\* value of more than one record in assignments.
C1_NoPageAssignedTwice ==
    MatchDone =>
        \A r1, r2 \in DOMAIN assignments :
            r1 # r2 => assignments[r1] # assignments[r2]

\* C1 witness: two records are assigned while a later record found the page
\* it scores on already taken.
C1_Witness ==
    /\ MatchDone
    /\ Cardinality(DOMAIN assignments) >= 2
    /\ \E i \in RowPos :
          /\ df[i].idx \notin DOMAIN assignments
          /\ MatchingPages(NormId(i)) # {}

\* C2: every key of assignments is a record with a non-empty normalized order
\* number; a record whose normalized order number is empty gets the detail
\* (-1, 0, empty_order_number), no page is scored for it and it consumes no page.
C2_EmptyIdentifierSkipped ==
    MatchDone =>
        /\ \A k \in DOMAIN assignments :
              \E i \in RowPos : df[i].idx = k /\ NormId(i) # <<>>
        /\ used_pages = Values(assignments)
        /\ \A i \in RowPos :
              NormId(i) = <<>> =>
                  /\ df[i].idx \notin DOMAIN assignments
                  /\ match_details[df[i].idx] = Detail(-1, Score0, "empty_order_number")
                  /\ \A p \in PageIdx : <<df[i].idx, p>> \notin scored

\* C2 witness: a record with an empty normalized order number was processed in
\* a run with pages, next to a record that was assigned.
C2_Witness ==
    /\ MatchDone
    /\ Len(pages) > 0
    /\ assignments # <<>>
    /\ \E i \in RowPos : NormId(i) = <<>> /\ df[i].order # <<>>

\* C3: of the records that share one order number for which exactly one page
\* scores above 0 (a page no record with another order number scores on), the
\* first in iteration order is assigned that page and every later one is
\* unmatched with reason no_match.
C3_FirstRecordWins ==
    MatchDone =>
        \A i, j \in RowPos : \A p \in PageIdx :
            ( /\ i < j
              /\ NormId(i) = NormId(j)
              /\ \A k \in RowPos : k < i => NormId(k) # NormId(i)
              /\ MatchingPages(NormId(i)) = {p}
              /\ \A k \in RowPos :
                    NormId(k) # NormId(i) => p \notin MatchingPages(NormId(k)) )
            => /\ df[i].idx \in DOMAIN assignments
               /\ assignments[df[i].idx] = p
               /\ Unmatched(j)

\* C3 witness: exactly two records, with the same order number, and exactly one
\* page that matches it, after the assignment.
C3_Witness ==
    /\ MatchDone
    /\ Len(df) = 2
    /\ NormId(1) = NormId(2)
    /\ Cardinality(MatchingPages(NormId(1))) = 1
    /\ Len(pages) >= 2

RECURSIVE PagesOfRows(_)
\* the page of every row in row order, for rows that each hold exactly one
\* exactly matching page
PagesOfRows(i) ==
    IF i > Len(df) THEN <<>>
    ELSE <<CHOOSE p \in PageIdx : NormId(i) \in SetOf(pages[p + 1])>> \o PagesOfRows(i + 1)

\* every record's order number is an exact candidate on exactly one page and
\* no two records share that page
OnePageEach ==
    /\ \A i \in RowPos :
          Cardinality({p \in PageIdx : NormId(i) \in SetOf(pages[p + 1])}) = 1
    /\ \A i, j \in RowPos : \A p \in PageIdx :
          (i # j /\ NormId(i) \in SetOf(pages[p + 1]))
              => NormId(j) \notin SetOf(pages[p + 1])

\* C4: when every record's order number is an exact candidate on exactly one
\* page and no two records share that page, each record is assigned its page,
\* the leftover list holds the other pages in ascending order, and the final
\* page order is the assigned pages in record order followed by the leftover
\* pages.
C4_EndToEndOrder ==
    (pc = "ordered" /\ OnePageEach) =>
        /\ \A i \in RowPos :
              /\ df[i].idx \in DOMAIN assignments
              /\ NormId(i) \in SetOf(pages[assignments[df[i].idx] + 1])
        /\ leftover_pages = sorted(PageIdx \ SetOf(PagesOfRows(1)))
        /\ ordered_indices = PagesOfRows(1) \o leftover_pages

\* C5: when all records are processed, leftover_pages lists exactly the page
\* indices consumed by no record, in ascending order without repeats.
C5_LeftoverSortedUnconsumed ==
    MatchDone =>
        /\ SetOf(leftover_pages) = PageIdx \ used_pages
        /\ \A a, b \in 1..Len(leftover_pages) :
              a < b => leftover_pages[a] < leftover_pages[b]

\* C5 witness: a page between two leftover pages was consumed.
C5_Witness ==
    /\ MatchDone
    /\ Len(leftover_pages) >= 2
    /\ \E p \in used_pages : leftover_pages[1] < p /\ p < leftover_pages[2]

AllMatched == \A i \in RowPos : df[i].idx \in DOMAIN assignments

\* C6 as stated: the number of assignments and the number of leftover pages add
\* up to the number of pages only when there are as many pages as records and
\* every record matched.
C6_SumOnlyWhenSquare ==
    MatchDone =>
        ( Cardinality(DOMAIN assignments) + Len(leftover_pages) = Len(pages)
            => (Len(pages) = Len(df) /\ AllMatched) )

\* C6 amended: the number of assignments and the number of leftover pages add
\* up to the number of pages for every input, and the number of assignments is
\* at most the number of records and at most the number of pages.
C6_SumAlwaysTotal ==
    MatchDone =>
        /\ Cardinality(DOMAIN assignments) + Len(leftover_pages) = Len(pages)
        /\ Cardinality(DOMAIN assignments) <= Len(df)
        /\ Cardinality(DOMAIN assignments) <= Len(pages)

\* C6 witness: more pages than records, one record matched and one not.
C6_Witness ==
    /\ MatchDone
    /\ Len(pages) > Len(df)
    /\ assignments # <<>>
    /\ ~AllMatched

\* C7: there is exactly one detail per record; a record is in assignments with
\* page p exactly when its detail has page p >= 0, and then the score is above
\* 0 and at most 100; every other record has the detail page -1, score 0 and
\* reason no_match or empty_order_number.
C7_OneDetailPerRecord ==
    MatchDone =>
        /\ DOMAIN match_details = {df[i].idx : i \in RowPos}
        /\ Cardinality(DOMAIN match_details) = Len(df)
        /\ \A k \in DOMAIN match_details :
              LET d == match_details[k]
              IN  IF k \in DOMAIN assignments
                  THEN /\ d.page_idx = assignments[k]
                       /\ d.page_idx >= 0
                       /\ Less(Score0, d.score)
                       /\ ~Less(Score100, d.score)
                  ELSE /\ d.page_idx = -1
                       /\ d.score = Score0
                       /\ d.reason \in {"no_match", "empty_order_number"}

\* C7 witness: one run leaves a record matched by similarity, a record
\* unmatched and a record with an empty order number.
C7_Witness ==
    /\ MatchDone
    /\ \E k \in DOMAIN match_details :
          /\ match_details[k].page_idx >= 0
          /\ Less(match_details[k].score, Score100)
    /\ \E k \in DOMAIN match_details : match_details[k].reason = "no_match"
    /\ \E k \in DOMAIN match_details : match_details[k].reason = "empty_order_number"

----------------------------------------------------------------------------
(* Properties of the scorer, checked under SpecScorer *)

\* C8: if the page's candidate list contains the record's non-empty normalized
\* order number, the score is 100 and the reason order_exact, whatever
\* use_fuzzy and threshold are.
C8_ExactShortCircuit ==
    ( /\ call.fn = "calc_match_score"
      /\ ret # <<>>
      /\ call.excel_order # <<>>
      /\ call.excel_order \in SetOf(call.page_info) )
    => ret[1] = Result(Score100, "order_exact")

\* C8 witness: the order number is the second candidate, behind a candidate
\* that is similar enough for the threshold, with fuzzy matching on.
C8_Witness ==
    /\ call.fn = "calc_match_score"
    /\ ret # <<>>
    /\ call.use_fuzzy
    /\ Len(call.page_info) = 2
    /\ call.excel_order = call.page_info[2]
    /\ call.excel_order # call.page_info[1]
    /\ AtLeast(fuzz_ratio(call.excel_order, call.page_info[1]), call.threshold)

----------------------------------------------------------------------------
(* Properties of the normalizer *)

AllDigits(text) == \A i \in 1..Len(text) : IsDigit(text[i])
PhoneCalled == call.fn = "normalize_phone" /\ ret # <<>> /\ AllDigits(call.text)
Canonical(text, n) == Len(text) = n /\ startswith(text, <<"0", "1", "0">>)

\* the digit strings the rules accept
Listed(t) ==
    \/ Len(t) \in {7, 8}
    \/ Len(t) = 9 /\ startswith(t, <<"1", "0">>)
    \/ Len(t) = 10 /\ (startswith(t, <<"1", "0">>) \/ startswith(t, <<"0", "1", "0">>))
    \/ Len(t) = 11 /\ startswith(t, <<"0", "1", "0">>)

ElevenListed(t) ==
    \/ Len(t) = 8
    \/ Len(t) = 10 /\ startswith(t, <<"1", "0">>)
    \/ Len(t) = 11 /\ startswith(t, <<"0", "1", "0">>)

C10_Idempotent ==
    (call.fn = "normalize_order_number" /\ Len(ret) = 2) => ret[2] = ret[1]

\* C10 witness: a text that the first normalization changed, to a non-empty
\* result, was normalized twice.
C10_Witness ==
    /\ call.fn = "normalize_order_number"
    /\ Len(ret) = 2
    /\ ret[1] # <<>>
    /\ ret[1] # call.text
    /\ Len(call.text) = MaxLen

----------------------------------------------------------------------------
(* order_searcher.py: priority score and choice of the latest file.        *)
(*                                                                         *)
(* A date is None, written <<>>, or <<t>> with t its timestamp() in whole  *)
(* seconds (a datetime built from year, month, day has no fraction).  A    *)
(* modification time is [sec, usec]: getmtime() is a float and             *)
(* datetime.fromtimestamp keeps its microseconds.  A priority score is a   *)
(* Python int of about 10^15; it is kept exactly as [q, r], standing for   *)
(* q * 1000000 + r with 0 <= r < 1000000.                                  *)

MaxMatches == 3    \* most matches given to _select_latest_file

DocDateWeight == 1000000
FilenameDateWeight == 1000

None == <<>>
Date(t) == <<t>>
Time(sec, usec) == [sec |-> sec, usec |-> usec]

\* int(x.timestamp()) of a date and of a modification time (never negative)
DateSeconds(date) == date[1]
TimeSeconds(time) == time.sec

BigInt(n) == [q |-> n \div DocDateWeight, r |-> n % DocDateWeight]
BigAdd(x, y) ==
    [q |-> x.q + y.q + ((x.r + y.r) \div DocDateWeight),
     r |-> (x.r + y.r) % DocDateWeight]
BigTimes(n, k) ==
    [q |-> (n \div (DocDateWeight \div k)),
     r |-> (n % (DocDateWeight \div k)) * k]
BigLess(x, y) == x.q < y.q \/ (x.q = y.q /\ x.r < y.r)

_calculate_priority_score_equalWeights(doc_date, filename_date, modified_time) ==
    BigAdd(IF doc_date # None THEN BigInt(DateSeconds(doc_date))
           ELSE IF filename_date # None THEN BigInt(DateSeconds(filename_date))
           ELSE BigInt(0),
           BigInt(TimeSeconds(modified_time)))

\* the score without the modification time added to the dated tiers
_calculate_priority_score_tierOnly(doc_date, filename_date, modified_time) ==
    IF doc_date # None THEN BigTimes(DateSeconds(doc_date), DocDateWeight)
    ELSE IF filename_date # None
         THEN BigTimes(DateSeconds(filename_date), FilenameDateWeight)
    ELSE BigInt(TimeSeconds(modified_time))

_calculate_priority_score(doc_date, filename_date, modified_time) ==
    BigAdd(IF doc_date # None
              THEN BigTimes(DateSeconds(doc_date), DocDateWeight)
           ELSE IF filename_date # None
              THEN BigTimes(DateSeconds(filename_date), FilenameDateWeight)
           ELSE BigInt(0),
           BigInt(TimeSeconds(modified_time)))

\* the OrderMatch that _search_order_in_file builds for a file with a match
OrderMatch(file_path, doc_date, filename_date, modified_time) ==
    [file_path |-> file_path,
     doc_date |-> doc_date,
     filename_date |-> filename_date,
     modified_time |-> modified_time,
     priority_score |->
         _calculate_priority_score(doc_date, filename_date, modified_time)]

\* sorted(matches, key=priority_score, reverse=True): stable, so matches of
\* equal score keep their order in the list
\* an insertion that puts a match in front of the matches of equal score
RECURSIVE InsertByScore_beforeEqual(_, _)
InsertByScore_beforeEqual(m, s) ==
    IF s = <<>> THEN <<m>>
    ELSE IF ~BigLess(m.priority_score, Head(s).priority_score)
         THEN <<m>> \o s
         ELSE <<Head(s)>> \o InsertByScore_beforeEqual(m, Tail(s))

RECURSIVE InsertByScore(_, _)
InsertByScore(m, s) ==
    IF s = <<>> THEN <<m>>
    ELSE IF BigLess(Head(s).priority_score, m.priority_score)
         THEN <<m>> \o s
         ELSE <<Head(s)>> \o InsertByScore(m, Tail(s))

RECURSIVE sorted_by_score(_)
sorted_by_score(matches) ==
    IF matches = <<>> THEN <<>>
    ELSE InsertByScore(matches[Len(matches)],
                       sorted_by_score(SubSeq(matches, 1, Len(matches) - 1)))

\* the tier test with the filename date looked at first
decided_by_filenameFirst(match) ==
    IF match.filename_date # None THEN "filename_date"
    ELSE IF match.doc_date # None THEN "doc_date"
    ELSE "modified_time"

decided_by(match) ==
    IF match.doc_date # None THEN "doc_date"
    ELSE IF match.filename_date # None THEN "filename_date"
    ELSE "modified_time"

\* defined for a non-empty list; the code raises ValueError on an empty one
_select_latest_file(matches) ==
    LET best_match == IF Len(matches) = 1 THEN matches[1]
                      ELSE sorted_by_score(matches)[1]
    IN  [best_match |-> best_match, decided_by |-> decided_by(best_match)]

TimeLess(a, b) == a.sec < b.sec \/ (a.sec = b.sec /\ a.usec < b.usec)

\* _select_latest_file on matches that carry a modification time only
MtimePool == {Time(100, 0), Time(100, 500000), Time(200, 0), Time(300, 0)}

InitMtimeOnly ==
    /\ \E n \in 1..MaxMatches :
         \E mt \in [1..n -> MtimePool] :
            call = [fn |-> "_select_latest_file",
                    matches |-> [i \in 1..n |-> OrderMatch(i, None, None, mt[i])]]
    /\ ret = <<>>
    /\ RunIdle
    /\ SearchIdle

CallSelectLatestFile ==
    /\ call.fn = "_select_latest_file"
    /\ ret = <<>>
    /\ ret' = <<_select_latest_file(call.matches)>>
    /\ UNCHANGED <<call, runVars, searchVars>>

SpecMtimeOnly == InitMtimeOnly /\ [][CallSelectLatestFile]_vars

\* OrderSearcher.search_order_in_folder: one OrderMatch per file that holds
\* the order number, in the order of the files, then the latest of them.
\* A file is [doc_date, filename_date, modified_time] of a PDF with a match.
DocDates2020 == {Date(1577786400), Date(1577836800), Date(1577880000)}
DocDatePool == {None, Date(-151718400), Date(86400)} \cup DocDates2020
FilenameDatePool == {None, Date(86400), Date(1704067200)}
ModifiedTimePool ==
    {Time(0, 0), Time(100, 0), Time(1577836800, 0), Time(2147483647, 999999)}
FilePool ==
    [doc_date : DocDatePool, filename_date : FilenameDatePool,
     modified_time : ModifiedTimePool]

InitPriority ==
    /\ \E n \in 1..2 :
         \E files \in [1..n -> FilePool] :
            call = [fn |-> "search_order_in_folder", files |-> files]
    /\ ret = <<>>
    /\ RunIdle
    /\ SearchIdle

SearchFiles ==
    /\ call.fn = "search_order_in_folder"
    /\ ret = <<>>
    /\ ret' = << [i \in 1..Len(call.files) |->
                    OrderMatch(i, call.files[i].doc_date,
                               call.files[i].filename_date,
                               call.files[i].modified_time)] >>
    /\ UNCHANGED <<call, runVars, searchVars>>

SelectLatest ==
    /\ call.fn = "search_order_in_folder"
    /\ Len(ret) = 1
    /\ ret' = Append(ret, _select_latest_file(ret[1]))
    /\ UNCHANGED <<call, runVars, searchVars>>

NextPriority == SearchFiles \/ SelectLatest

SpecPriority == InitPriority /\ [][NextPriority]_vars

----------------------------------------------------------------------------
(* search_print.py: search of one order number in every PDF of a folder.   *)
(*                                                                         *)
(* A file is [path, size, mtime, readable, pages]: pages holds, per page,  *)
(* the order candidates extract_order_numbers_from_text finds in its text; *)
(* a file that is not readable makes extract_text_pages_fast raise.  A     *)
(* search result is <<path, page numbers, mtime>>, or None.                *)

MaxFiles == 5          \* most PDF files in the folder

MaxProcesses == 4
MinParallelFiles == 2
MinPartialLen == 6
ChunksPerProcess == 10

Raised == <<-1>>       \* stands for an exception leaving the function

Contains(s, sub) ==
    \E i \in 0..(Len(s) - Len(sub)) : SubSeq(s, i + 1, i + Len(sub)) = sub

\* extract_text_pages_fast raises when PyMuPDF and pdfplumber both fail
ExtractionFails(file) == ~file.readable
extract_text_pages_fast(file) == file.pages

normalized_set(order_candidates) ==
    {normalize_order_number(order_candidates[k]) :
        k \in 1..Len(order_candidates)} \ {<<>>}

PageMatches(normalized_order, order_candidates) ==
    \/ normalized_order \in normalized_set(order_candidates)
    \/ /\ Len(normalized_order) >= MinPartialLen
       /\ \E nc \in normalized_set(order_candidates) :
             /\ Len(nc) >= MinPartialLen
             /\ (Contains(nc, normalized_order) \/ Contains(normalized_order, nc))

RECURSIVE FoundPages(_, _, _)
FoundPages(normalized_order, page_texts, page_num) ==
    IF page_num > Len(page_texts) THEN <<>>
    ELSE (IF PageMatches(normalized_order, page_texts[page_num])
          THEN <<page_num>> ELSE <<>>)
         \o FoundPages(normalized_order, page_texts, page_num + 1)

search_order_in_pdf_uncaught(file, order_no) ==
    LET normalized_order == normalize_order_number(order_no)
    IN  IF normalized_order = <<>> THEN None
        ELSE IF ExtractionFails(file) THEN Raised
        ELSE FoundPages(normalized_order, extract_text_pages_fast(file), 1)

\* the page numbers (1-based) that hold the order number, or None
search_order_in_pdf(file, order_no) ==
    LET normalized_order == normalize_order_number(order_no)
    IN  IF normalized_order = <<>> THEN None
        ELSE IF ExtractionFails(file) THEN None
        ELSE FoundPages(normalized_order, extract_text_pages_fast(file), 1)

\* the unit of work of one pool worker; any exception ends as None
_search_single_file(file, order_no) ==
    LET found == search_order_in_pdf(file, order_no)
    IN  IF found = Raised \/ found = None THEN None
        ELSE <<file.path, found, file.mtime>>

\* list.sort(key=size): stable, smallest file first
RECURSIVE InsertBySize(_, _)
InsertBySize(f, s) ==
    IF s = <<>> THEN <<f>>
    ELSE IF f.size < Head(s).size THEN <<f>> \o s
         ELSE <<Head(s)>> \o InsertBySize(f, Tail(s))

RECURSIVE sort_by_size(_)
sort_by_size(files) ==
    IF files = <<>> THEN <<>>
    ELSE InsertBySize(files[Len(files)],
                      sort_by_size(SubSeq(files, 1, Len(files) - 1)))

\* results.sort(key=lambda x: x[2], reverse=True): stable, so results of
\* equal modification time keep the order in which they were appended
RECURSIVE InsertByMtime(_, _)
InsertByMtime(r, s) ==
    IF s = <<>> THEN <<r>>
    ELSE IF Head(s)[3] < r[3] THEN <<r>> \o s
         ELSE <<Head(s)>> \o InsertByMtime(r, Tail(s))

sort_by_mtime_unsorted(rs) == rs

RECURSIVE sort_by_mtime(_)
sort_by_mtime(rs) ==
    IF rs = <<>> THEN <<>>
    ELSE InsertByMtime(rs[Len(rs)], sort_by_mtime(SubSeq(rs, 1, Len(rs) - 1)))

\* the pool size without the limit of MaxProcesses
num_processes_uncapped(cpus, total_files) == Min({cpus, total_files})

num_processes(cpus, total_files) ==
    Min({cpus, MaxProcesses, total_files})

chunk_size(cpus, total_files) ==
    Max(1, total_files \div (num_processes(cpus, total_files) * ChunksPerProcess))

\* search_order_in_folder(folder_path, order_number, stop_flag, use_multiprocess)

SearchedOrder == <<"A", "-", "1", "2", "3", "4", "5", "6">>
OrderNumbers == {SearchedOrder, <<"-">>}
CpuCounts == {1, 2, 8}

File(path, size, mtime, readable, page_candidates) ==
    [path |-> path, size |-> size, mtime |-> mtime, readable |-> readable,
     pages |-> page_candidates]

FolderFiles ==
    << File("a.pdf", 3, 100, TRUE, << <<SearchedOrder>> >>),
       File("b.pdf", 1, 100, TRUE,
            << <<>>, << <<"a", "1", "2", "3", "4", "5", "6", "7">> >> >>),
       File("c.pdf", 2, 200, TRUE, << << <<"B", "-", "9", "9", "9", "9", "9", "9">> >> >>),
       File("d.pdf", 1, 300, FALSE, <<>>),
       File("e.pdf", 2, 200, TRUE,
            << <<SearchedOrder>>, << <<"a", "1", "2", "3", "4", "5", "6">> >> >>),
       File("f.pdf", 4, 400, TRUE, << <<>> >>) >>

Paths(files) == {files[k].path : k \in 1..Len(files)}

InitSearch ==
    /\ call = [fn |-> "search_print.search_order_in_folder"]
    /\ ret = <<>>
    /\ RunIdle
    /\ \E S \in SUBSET (1..Len(FolderFiles)) :
          /\ Cardinality(S) <= MaxFiles
          /\ folder = [k \in 1..Cardinality(S) |-> FolderFiles[sorted(S)[k]]]
    /\ order_number \in OrderNumbers
    /\ use_multiprocess \in BOOLEAN
    /\ cpu_count \in CpuCounts
    /\ stop = FALSE
    /\ spc = "start"
    /\ todo = <<>>
    /\ running = {}
    /\ outq = <<>>
    /\ results = <<>>
    /\ searched = {}
    /\ dropped = <<>>
    /\ killed = {}
    /\ stop_seen = FALSE

\* the user's stop request: stop_flag() is true from now on
SetStop ==
    /\ spc \in {"start", "pool", "seq"}
    /\ ~stop
    /\ stop' = TRUE
    /\ UNCHANGED <<fnVars, runVars, folder, order_number, use_multiprocess, cpu_count,
                   spc, todo, running, outq, results, searched, dropped, killed,
                   stop_seen>>

\* the choice of the parallel or the single-process search, the walk of
\* the folder with its stop check, and the sort by size
StartSearch ==
    /\ spc = "start"
    /\ IF stop
       THEN /\ stop_seen' = TRUE
            /\ spc' = "returned"
            /\ todo' = todo
       ELSE /\ stop_seen' = stop_seen
            /\ spc' = IF use_multiprocess /\ Len(folder) >= MinParallelFiles
                      THEN "pool" ELSE "seq"
            /\ todo' = sort_by_size(folder)
    /\ UNCHANGED <<fnVars, runVars, folder, order_number, use_multiprocess, cpu_count,
                   stop, running, outq, results, searched, dropped, killed>>

\* a free pool worker takes the next chunk of search_args
WorkerTake ==
    /\ spc = "pool"
    /\ todo # <<>>
    /\ Cardinality(running) < num_processes(cpu_count, Len(folder))
    /\ LET n == Min({chunk_size(cpu_count, Len(folder)), Len(todo)})
       IN  /\ running' = running \cup {SubSeq(todo, 1, n)}
           /\ todo' = SubSeq(todo, n + 1, Len(todo))
    /\ UNCHANGED <<fnVars, runVars, folder, order_number, use_multiprocess, cpu_count,
                   stop, spc, outq, results, searched, dropped, killed, stop_seen>>

\* a worker finishes its chunk: _search_single_file on each file of it
WorkerFinish ==
    /\ spc = "pool"
    /\ \E chunk \in running :
          /\ running' = running \ {chunk}
          /\ outq' = outq \o [k \in 1..Len(chunk) |->
                                 _search_single_file(chunk[k], order_number)]
          /\ searched' = searched \cup Paths(chunk)
    /\ UNCHANGED <<fnVars, runVars, folder, order_number, use_multiprocess, cpu_count,
                   stop, spc, todo, results, dropped, killed, stop_seen>>

\* the list returned when the loop sees the stop flag with a result in hand:
\* the loop is left before the result is looked at
ResultsAtStop_keepsResult(rs, result) ==
    sort_by_mtime(IF result # None THEN Append(rs, result) ELSE rs)

ResultsAtStop(rs, result) == sort_by_mtime(rs)

\* one turn of the loop over pool.imap_unordered
Receive ==
    /\ spc = "pool"
    /\ outq # <<>>
    /\ outq' = Tail(outq)
    /\ IF stop
       THEN /\ stop_seen' = TRUE
            /\ killed' = UNION {Paths(chunk) : chunk \in running}
            /\ running' = {}
            /\ dropped' = <<Head(outq)>>
            /\ results' = ResultsAtStop(results, Head(outq))
            /\ spc' = "returned"
       ELSE /\ results' = IF Head(outq) # None
                          THEN Append(results, Head(outq)) ELSE results
            /\ UNCHANGED <<stop_seen, killed, running, dropped, spc>>
    /\ UNCHANGED <<fnVars, runVars, folder, order_number, use_multiprocess, cpu_count,
                   stop, todo, searched>>

\* imap_unordered is exhausted: the pool is left and the results are sorted
PoolDone ==
    /\ spc = "pool"
    /\ todo = <<>> /\ running = {} /\ outq = <<>>
    /\ results' = sort_by_mtime(results)
    /\ spc' = "returned"
    /\ UNCHANGED <<fnVars, runVars, folder, order_number, use_multiprocess, cpu_count,
                   stop, todo, running, outq, searched, dropped, killed, stop_seen>>

\* one turn of the single-process loop over the files
SeqStep ==
    /\ spc = "seq"
    /\ todo # <<>>
    /\ IF stop
       THEN /\ stop_seen' = TRUE
            /\ results' = sort_by_mtime(results)
            /\ spc' = "returned"
            /\ UNCHANGED <<todo, searched>>
       ELSE LET found == search_order_in_pdf(Head(todo), order_number)
            IN  IF found = Raised
                THEN /\ spc' = "raised"
                     /\ UNCHANGED <<todo, results, searched, stop_seen>>
                ELSE /\ results' = IF found # None
                                   THEN Append(results,
                                          <<Head(todo).path, found, Head(todo).mtime>>)
                                   ELSE results
                     /\ todo' = Tail(todo)
                     /\ searched' = searched \cup {Head(todo).path}
                     /\ UNCHANGED <<spc, stop_seen>>
    /\ UNCHANGED <<fnVars, runVars, folder, order_number, use_multiprocess, cpu_count,
                   stop, running, outq, dropped, killed>>

SeqDone ==
    /\ spc = "seq"
    /\ todo = <<>>
    /\ results' = sort_by_mtime(results)
    /\ spc' = "returned"
    /\ UNCHANGED <<fnVars, runVars, folder, order_number, use_multiprocess, cpu_count,
                   stop, todo, running, outq, searched, dropped, killed, stop_seen>>

NextSearch ==
    \/ SetStop \/ StartSearch \/ WorkerTake \/ WorkerFinish \/ Receive
    \/ PoolDone \/ SeqStep \/ SeqDone

SpecSearch == InitSearch /\ [][NextSearch]_vars

----------------------------------------------------------------------------
(* Output file names: get_output_filenames (io_utils.py) *)

MaxCalls == 3          \* most runs that write into the same directory on one day

\* A file name of the output directory, seen the way get_output_filenames
\* looks at it. With base = ordered_<today>:
\*   "plain"       base.pdf
\*   "versioned"   base_v<digits>.pdf
\*   "plain_tail"  base.pdf<more>.pdf, e.g. base.pdf.bak.pdf
\*   "other"       base<more>.pdf that the version pattern does not match,
\*                 e.g. "base (1).pdf" or base_final.pdf
\*   "report"      base[_v<digits>]_match_report.csv
\*   "unrelated"   any name that does not start with base or end with .pdf
FileName(stem, digits) == [stem |-> stem, digits |-> digits]

\* Path(base_dir).glob(f"{base}*.pdf")
glob(dir) == {f \in dir : f.stem \in {"plain", "versioned", "plain_tail", "other"}}

\* version_pattern.match(name): a match at the start of the name, the
\* pattern has no end anchor
version_pattern_match(f) == f.stem \in {"plain", "versioned", "plain_tail"}
\* match.group(1): the digits after _v, None when the group did not take part
version_group(f) == IF f.stem = "versioned" THEN f.digits ELSE None

DigitSeq == <<"0", "1", "2", "3", "4", "5", "6", "7", "8", "9">>

\* int(text) and str(n) for texts of decimal digits
RECURSIVE int(_)
int(digits) ==
    IF digits = <<>> THEN 0
    ELSE 10 * int(SubSeq(digits, 1, Len(digits) - 1))
            + (IndexIn(digits[Len(digits)], DigitSeq) - 1)

RECURSIVE str(_)
str(n) ==
    IF n < 10 THEN <<DigitSeq[n + 1]>> ELSE str(n \div 10) \o <<DigitSeq[(n % 10) + 1]>>

\* the loop over existing_files that raises max_version from 0
max_version(existing_files) ==
    LET versions == {IF version_group(f) = None THEN 1 ELSE int(version_group(f)) :
                        f \in {g \in existing_files : version_pattern_match(g)}}
    IN  IF versions = {} THEN 0
        ELSE CHOOSE v \in versions : \A w \in versions : w <= v

get_output_filenames(dir) ==
    LET existing_files == glob(dir)
        next_version == max_version(existing_files) + 1
    IN  IF existing_files = {}
        THEN [pdf_path |-> FileName("plain", <<>>),
              csv_path |-> FileName("report", <<>>)]
        ELSE [pdf_path |-> FileName("versioned", str(next_version)),
              csv_path |-> FileName("report", str(next_version))]

\* what a user's output directory may hold before the first run of the day
InitialNames ==
    {FileName("plain", <<>>), FileName("versioned", <<"2">>),
     FileName("versioned", <<"0", "3">>), FileName("versioned", <<"0">>),
     FileName("plain_tail", <<>>), FileName("other", <<>>),
     FileName("unrelated", <<>>)}

\* the directory now: what it held at first and the PDFs written since
Directory == call.base_dir \cup {ret[k].pdf_path : k \in 1..Len(ret)}

InitOutput ==
    /\ call \in {[fn |-> "get_output_filenames", base_dir |-> d] :
                    d \in SUBSET InitialNames}
    /\ ret = <<>>
    /\ RunIdle
    /\ SearchIdle

\* steps 6 and 7 of a run: get_output_filenames(self.output_dir), then
\* reorder_pdf writes pdf_out_path
SaveOrderedPdf ==
    /\ call.fn = "get_output_filenames"
    /\ Len(ret) < MaxCalls
    /\ ret' = Append(ret, get_output_filenames(Directory))
    /\ UNCHANGED <<call, runVars, searchVars>>

SpecOutput == InitOutput /\ [][SaveOrderedPdf]_vars

----------------------------------------------------------------------------
(* Page ranges: OrderSearcher.get_page_ranges_str (order_searcher.py) and
   PrintManager._parse_page_ranges (print_manager.py) *)

MaxPageNumbers == 4    \* longest page number list given to get_page_ranges_str

\* start, or start-end
RangeText_startOnly(start, end) == str(start)

RangeText(start, end) ==
    IF start = end THEN str(start) ELSE str(start) \o <<"-">> \o str(end)

\* ",".join(ranges)
RECURSIVE join(_)
join(ranges) ==
    IF ranges = <<>> THEN <<>>
    ELSE IF Len(ranges) = 1 THEN ranges[1]
    ELSE ranges[1] \o <<",">> \o join(Tail(ranges))

\* the loop over page_numbers[1:] and the append of the last range
RECURSIVE RangesFrom(_, _, _, _, _)
RangesFrom(page_numbers, i, start, end, ranges) ==
    IF i > Len(page_numbers) THEN Append(ranges, RangeText(start, end))
    ELSE IF page_numbers[i] = end + 1
         THEN RangesFrom(page_numbers, i + 1, start, page_numbers[i], ranges)
    ELSE RangesFrom(page_numbers, i + 1, page_numbers[i], page_numbers[i],
                    Append(ranges, RangeText(start, end)))

get_page_ranges_str(page_numbers) ==
    IF page_numbers = <<>> THEN <<>>
    ELSE LET numbers == sorted(SetOf(page_numbers))
         IN  IF Len(numbers) = 1 THEN str(numbers[1])
             ELSE join(RangesFrom(numbers, 2, numbers[1], numbers[1], <<>>))

\* text.split(sep): the pieces between the separators
RECURSIVE split(_, _)
split(text, sep) ==
    IF \A i \in 1..Len(text) : text[i] # sep THEN <<text>>
    ELSE LET k == CHOOSE i \in 1..Len(text) :
                     text[i] = sep /\ \A j \in 1..(i - 1) : text[j] # sep
         IN  <<SubSeq(text, 1, k - 1)>> \o split(SubSeq(text, k + 1, Len(text)), sep)

\* part.split('-', 1)
split_once(part) ==
    LET k == CHOOSE i \in 1..Len(part) :
                 part[i] = "-" /\ \A j \in 1..(i - 1) : part[j] # "-"
    IN  <<SubSeq(part, 1, k - 1), SubSeq(part, k + 1, Len(part))>>

\* int(text) raises ValueError unless text is a decimal literal
IntRaises(text) == text = <<>> \/ \E i \in 1..Len(text) : ~IsDigit(text[i])

\* list(range(start, end)): end is not included
range(start, end) == [i \in 1..(IF end > start THEN end - start ELSE 0) |-> start + i - 1]

\* one part of the string raises in the loop
PartRaises(part) ==
    IF "-" \in SetOf(part)
    THEN IntRaises(split_once(part)[1]) \/ IntRaises(split_once(part)[2])
    ELSE IntRaises(part)

\* the page numbers one part adds
PartPages(part) ==
    IF "-" \in SetOf(part)
    THEN range(int(split_once(part)[1]), int(split_once(part)[2]) + 1)
    ELSE <<int(part)>>

RECURSIVE Concat(_)
Concat(lists) == IF lists = <<>> THEN <<>> ELSE Head(lists) \o Concat(Tail(lists))

\* any exception gives the empty list
_parse_page_ranges(page_ranges) ==
    LET parts == [k \in 1..Len(split(page_ranges, ",")) |->
                     strip(split(page_ranges, ",")[k])]
    IN  IF \E k \in 1..Len(parts) : PartRaises(parts[k]) THEN <<>>
        ELSE sorted(SetOf(Concat([k \in 1..Len(parts) |-> PartPages(parts[k])])))

\* 1-based page numbers of a match, with one-digit and two-digit numbers
PageNumberPool == {1, 2, 3, 9, 10, 11}

InitPageRanges ==
    /\ call \in {[fn |-> "get_page_ranges_str", page_numbers |-> P] :
                    P \in SeqsUpTo(PageNumberPool, MaxPageNumbers) \ {<<>>}}
    /\ ret = <<>>
    /\ RunIdle
    /\ SearchIdle

\* main.py builds the string for the print request
CallGetPageRangesStr ==
    /\ call.fn = "get_page_ranges_str"
    /\ ret = <<>>
    /\ ret' = <<get_page_ranges_str(call.page_numbers)>>
    /\ UNCHANGED <<call, runVars, searchVars>>

\* PrintManager turns the string of the request back into page numbers
CallParsePageRanges ==
    /\ call.fn = "get_page_ranges_str"
    /\ Len(ret) = 1
    /\ ret' = Append(ret, _parse_page_ranges(ret[1]))
    /\ UNCHANGED <<call, runVars, searchVars>>

NextPageRanges == CallGetPageRangesStr \/ CallParsePageRanges

SpecPageRanges == InitPageRanges /\ [][NextPageRanges]_vars

----------------------------------------------------------------------------
(* Claims C11 - C20 *)

MtimeOnly(matches) ==
    \A i \in 1..Len(matches) :
        matches[i].doc_date = None /\ matches[i].filename_date = None

\* C11 (checked under SpecMtimeOnly): among matches that have neither an
\* in-document date nor a filename date, _select_latest_file returns a match
\* whose modification time no other match exceeds, and reports
\* decided_by = "modified_time".
C11_GreatestMtimeWins ==
    (call.fn = "_select_latest_file" /\ ret # <<>> /\ MtimeOnly(call.matches)) =>
        /\ ret[1].decided_by = "modified_time"
        /\ \A i \in 1..Len(call.matches) :
              ~TimeLess(ret[1].best_match.modified_time,
                        call.matches[i].modified_time)

NoDate(m) == m.doc_date = None /\ m.filename_date = None
Selected == call.fn = "search_order_in_folder" /\ Len(ret) = 2

\* C12 (checked under SpecPriority): of two matches, one with the in-document
\* date 2020-01-01 and one with no in-document date and no filename date, the
\* first is selected, for every pair of modification times and in either
\* order of the list.
C12_DocDate2020BeatsNoDate ==
    Selected =>
        \A i, j \in 1..Len(ret[1]) :
            (ret[1][i].doc_date \in DocDates2020 /\ NoDate(ret[1][j])) =>
                ret[2].best_match = ret[1][i]

\* C12 witness: the match without dates is first in the list and has the
\* later modification time, and the selection was made.
C12_Witness ==
    /\ Selected
    /\ Len(ret[1]) = 2
    /\ NoDate(ret[1][1])
    /\ ret[1][2].doc_date \in DocDates2020
    /\ TimeLess(ret[1][2].modified_time, ret[1][1].modified_time)
    /\ ret[2].decided_by = "doc_date"

Scored == call.fn = "search_order_in_folder" /\ Len(ret) >= 1

\* C13 (checked under SpecPriority): for any two matches, one with an
\* in-document date scores strictly higher than one with only a filename
\* date, and one with a filename date (and no in-document date) scores
\* strictly higher than one with neither date.
C13_TiersStrictlyOrdered ==
    Scored =>
        \A i, j \in 1..Len(ret[1]) :
            LET a == ret[1][i]
                b == ret[1][j]
            IN  /\ (a.doc_date # None /\ b.doc_date = None
                                      /\ b.filename_date # None)
                       => BigLess(b.priority_score, a.priority_score)
                /\ (a.doc_date = None /\ a.filename_date # None /\ NoDate(b))
                       => BigLess(b.priority_score, a.priority_score)

FolderSearch == call.fn = "search_print.search_order_in_folder"
Returned == FolderSearch /\ spc = "returned"
Parallel == use_multiprocess /\ Len(folder) >= MinParallelFiles

SortedByMtimeDescending(rs) ==
    \A i, j \in 1..Len(rs) : i < j => rs[i][3] >= rs[j][3]

\* the results of the files in the given order, files without a result left out
RECURSIVE Collect(_, _)
Collect(files, order_no) ==
    IF files = <<>> THEN <<>>
    ELSE (IF _search_single_file(Head(files), order_no) # None
          THEN <<_search_single_file(Head(files), order_no)>> ELSE <<>>)
         \o Collect(Tail(files), order_no)

\* the list returned when every result arrives in the order of dispatch
InOrderResults(files, order_no) ==
    sort_by_mtime(Collect(sort_by_size(files), order_no))

Entries(rs) == {rs[k] : k \in 1..Len(rs)}
DistinctMtimes(rs) == \A i, j \in 1..Len(rs) : i # j => rs[i][3] # rs[j][3]

\* C14 as stated (checked under SpecSearch): with no stop request, the
\* returned list is sorted by modification time descending and is one and
\* the same list for every order in which the workers complete, that is the
\* list of the run in which they complete in the order of dispatch.
C14_SameListForEveryCompletionOrder ==
    (Returned /\ ~stop) =>
        /\ SortedByMtimeDescending(results)
        /\ results = InOrderResults(folder, order_number)

\* C14 amended (checked under SpecSearch): with no stop request, the returned
\* list is sorted by modification time descending and holds the same entries
\* for every completion order; it is the same list when no two entries have
\* the same modification time (entries of equal modification time stay in
\* completion order).
C14_SortedSameEntries ==
    (Returned /\ ~stop) =>
        /\ SortedByMtimeDescending(results)
        /\ Entries(results) = Entries(InOrderResults(folder, order_number))
        /\ Len(results) = Len(InOrderResults(folder, order_number))
        /\ DistinctMtimes(results) => results = InOrderResults(folder, order_number)

\* C14 witness: a parallel search returned three entries, two of them of
\* equal modification time, in another order than the order of dispatch gives.
C14_Witness ==
    /\ Returned /\ ~stop /\ Parallel
    /\ Len(results) = 3
    /\ ~DistinctMtimes(results)
    /\ results[1][3] > results[3][3]
    /\ results # InOrderResults(folder, order_number)

Stopped == Returned /\ stop_seen

Readable(file) == ~ExtractionFails(file)
WithoutFailing(files) == SelectSeq(files, Readable)
FailingPaths(files) == {files[k].path : k \in {i \in 1..Len(files) : ExtractionFails(files[i])}}

\* C16 (checked under SpecSearch): a file whose text extraction fails does
\* not abort the scan and has no entry in the result; every other file is
\* still searched, and the result is that of the same scan with the failing
\* files removed (the same list, up to the order of entries of equal
\* modification time in the parallel scan).
C16_FailingFileIsNoMatch ==
    /\ FolderSearch => spc # "raised"
    /\ (Returned /\ ~stop) =>
        LET expected == InOrderResults(WithoutFailing(folder), order_number)
        IN  /\ Paths(folder) \ FailingPaths(folder) \subseteq searched
            /\ \A k \in 1..Len(results) : results[k][1] \notin FailingPaths(folder)
            /\ Entries(results) = Entries(expected)
            /\ Len(results) = Len(expected)
            /\ SortedByMtimeDescending(results)
            /\ (~Parallel \/ DistinctMtimes(results)) => results = expected

\* C16 witness: a scan of three files, one of which cannot be read, returned
\* the entries of the other two.
C16_Witness ==
    /\ Returned /\ ~stop
    /\ Len(folder) = 3
    /\ FailingPaths(folder) # {}
    /\ Len(results) = 2
    /\ order_number = SearchedOrder

Running == call.fn = "run"
CheckedPages == Min({SamplePages, Len(text_lens)})
PagesWithText == Cardinality({i \in 1..CheckedPages : text_lens[i] > MinTextChars})
TextCheckFails == text_lens = Unreadable \/ 10 * PagesWithText < 8 * CheckedPages
NothingWritten == out_pdf = <<>> /\ out_csv = <<>>
NothingMatched ==
    /\ pos = 0 /\ scored = {} /\ assignments = <<>> /\ match_details = <<>>
    /\ used_pages = {} /\ ordered_indices = <<>>

\* C17 (checked under SpecRun): when the PDF fails the text check, the run
\* emits the error signal and ends; it never loads the Excel file, matches,
\* builds an order or writes a file.
C17_NoTextStopsBeforeLoad ==
    (Running /\ TextCheckFails) =>
        /\ pc \in {"check", "done"}
        /\ pc = "done" => signals = <<"error">>
        /\ df = <<>>
        /\ NothingMatched
        /\ NothingWritten

\* C17 witness: a run on a loadable sheet with rows and a PDF with pages but
\* without text ended with the error signal.
C17_Witness ==
    /\ Running /\ TextCheckFails
    /\ text_lens # Unreadable
    /\ excel_loadable /\ load_excel(sheet) # <<>>
    /\ Len(pages) = MaxPages
    /\ pc = "done"
    /\ signals = <<"error">>

Loaded ==
    /\ Running /\ ~TextCheckFails /\ excel_loadable
    /\ pages # <<>>
    /\ pc \notin {"check", "load"}

\* C18 (checked under SpecRun): when the loaded record set is empty, the run
\* ends with the error signal without having written an output PDF or a
\* report.
C18_EmptyRecordSetHalts ==
    (Loaded /\ df = <<>> /\ pc = "done") =>
        /\ signals = <<"error">>
        /\ NothingWritten

\* C19 (checked under SpecRun): on a text PDF and a loadable sheet with at
\* least one record the run ends with the finished signal, after writing one
\* report that has one row per record with the record's row number, its page
\* or UNMATCHED, its score, its reason and its order number.
C19_ValidInputEndsInSuccess ==
    (Loaded /\ df # <<>> /\ pc = "done") =>
        /\ signals = <<"finished">>
        /\ Len(out_csv) = 1
        /\ Len(out_csv[1]) = Len(df)
        /\ \A k \in 1..Len(df) :
              /\ out_csv[1][k].row_number = k + 1
              /\ out_csv[1][k].order = df[k].order
              /\ out_csv[1][k].reason = DetailOf(df[k].idx, match_details).reason
              /\ out_csv[1][k].score = Round1(DetailOf(df[k].idx, match_details).score)
              /\ out_csv[1][k].page =
                    IF df[k].idx \in DOMAIN assignments
                    THEN ToString(assignments[df[k].idx] + 1) ELSE "UNMATCHED"

Reordered == call.fn = "reorder_pdf" /\ ret # <<>>
ValidIndices ==
    \A k \in 1..Len(call.ordered_indices) :
        call.ordered_indices[k] \in 0..(Len(call.source) - 1)
Identity(n) == [k \in 1..n |-> k - 1]

\* C20 (checked under SpecReorder): for every list of page indices of the
\* source, repeats and omissions included, reorder_pdf writes exactly
\* len(ordered_indices) pages and its k-th page is the source page
\* ordered_indices[k]; with the identity list the written pages are the
\* source pages in their order.
C20_PagesInGivenOrder ==
    (Reordered /\ ValidIndices) =>
        /\ ~ret[1].raised
        /\ Len(ret[1].pages) = Len(call.ordered_indices)
        /\ \A k \in 1..Len(call.ordered_indices) :
              ret[1].pages[k] = call.source[call.ordered_indices[k] + 1]
        /\ call.ordered_indices = Identity(Len(call.source)) =>
              ret[1].pages = call.source

\* C20 witness: a list that repeats one page, omits another and is not in
\* source order was written.
C20_Witness ==
    /\ Reordered /\ ValidIndices
    /\ call.source = <<"p", "q", "p">>
    /\ call.ordered_indices = <<1, 0, 1>>
    /\ ret[1].pages = <<"q", "p", "q">>

----------------------------------------------------------------------------
(* Claims C21 - C30 *)

\* the pages assigned to the records before position i
TakenBefore(i) ==
    {assignments[df[k].idx] : k \in {j \in RowPos : j < i /\ df[j].idx \in DOMAIN assignments}}
\* the pages not taken before position i that hold record i's order number
FreeExactPages(i) ==
    LET id == NormId(i)
    IN  {p \in PageIdx \ TakenBefore(i) : id \in SetOf(pages[p + 1])}

\* C21: a record with a non-empty order number for which some page not yet
\* consumed holds the number as an exact candidate is assigned the lowest
\* such page with score 100, and no page after it is scored for the record,
\* also when a page before it matches by similarity.
C21_FirstExactPageWins ==
    MatchDone =>
        \A i \in RowPos :
            LET free == FreeExactPages(i)
                first == Min(free)
            IN  (NormId(i) # <<>> /\ free # {}) =>
                    /\ df[i].idx \in DOMAIN assignments
                    /\ assignments[df[i].idx] = first
                    /\ match_details[df[i].idx] = Detail(first, Score100, "order_exact")
                    /\ \A p \in PageIdx : p > first => <<df[i].idx, p>> \notin scored

\* C21 witness: a record was assigned its exact page although an earlier page
\* matched it by similarity, and a later exact page was left unscored.
C21_Witness ==
    /\ MatchDone
    /\ use_fuzzy
    /\ \E i \in RowPos : \E p, q, r \in PageIdx :
          /\ p < q /\ q < r
          /\ Less(Score0, ScoreOn(NormId(i), p))
          /\ <<df[i].idx, p>> \in scored
          /\ FreeExactPages(i) = {q, r}
          /\ assignments[df[i].idx] = q

ScorerCalled == call.fn = "calc_match_score" /\ ret # <<>>
\* the similarity ratios of the order number to each candidate
Ratios == {fuzz_ratio(call.excel_order, call.page_info[k]) : k \in 1..Len(call.page_info)}
\* x is the greatest of the ratios
IsMaxRatio(x, ratios) == x \in ratios /\ \A y \in ratios : ~Less(x, y)
NotExact ==
    /\ call.excel_order # <<>>
    /\ call.page_info # <<>>
    /\ call.excel_order \notin SetOf(call.page_info)

\* C22: for an order number that is not an exact member of a non-empty
\* candidate list the scorer returns (0, no_match) when fuzzy matching is off;
\* when it is on it returns the greatest similarity ratio over all candidates,
\* with a fuzzy reason, if that ratio is at or above the threshold, and
\* (0, no_match) otherwise; an empty order number or an empty candidate list
\* gives (0, no_order_data).
C22_ScorerBranches ==
    ScorerCalled =>
        /\ (call.excel_order = <<>> \/ call.page_info = <<>>)
              => ret[1] = Result(Score0, "no_order_data")
        /\ (NotExact /\ ~call.use_fuzzy) => ret[1] = Result(Score0, "no_match")
        /\ (NotExact /\ call.use_fuzzy) =>
              LET ratios == Ratios
              IN  \E x \in ratios :
                     /\ IsMaxRatio(x, ratios)
                     /\ IF x.n >= call.threshold * x.d
                        THEN /\ ret[1].score = x
                             /\ ret[1].reason =
                                   "order_fuzzy(" \o ToString(Round0(x)) \o "%)"
                        ELSE ret[1] = Result(Score0, "no_match")

\* C22 witness: fuzzy matching is on, the second candidate is more similar
\* than the first, and only the second reaches the threshold.
C22_Witness ==
    /\ ScorerCalled
    /\ NotExact
    /\ call.use_fuzzy
    /\ Len(call.page_info) = 2
    /\ Less(fuzz_ratio(call.excel_order, call.page_info[1]),
            fuzz_ratio(call.excel_order, call.page_info[2]))
    /\ ~AtLeast(fuzz_ratio(call.excel_order, call.page_info[1]), call.threshold)
    /\ ret[1].score = fuzz_ratio(call.excel_order, call.page_info[2])

(* The matching run on tables and documents with near-miss order numbers *)

GreedyCells == {NA, <<"a", "-", "1">>, <<"A", "2">>}
GreedyPages == {<<>>, <<<<"A", "1">>>>, <<<<"A", "2">>>>, <<<<"1", "1">>>>}

InitGreedy ==
    /\ call = [fn |-> "run"]
    /\ ret = <<>>
    /\ SearchIdle
    /\ sheet \in SeqsUpTo(GreedyCells, MaxRows)
    /\ pages \in SeqsUpTo(GreedyPages, MaxPages)
    /\ Len(sheet) + Len(pages) <= MaxSize
    /\ use_fuzzy \in BOOLEAN
    /\ threshold \in RunThresholds
    /\ pc = "load"
    /\ df = <<>>
    /\ pos = 0
    /\ assignments = <<>>
    /\ match_details = <<>>
    /\ used_pages = {}
    /\ scored = {}
    /\ leftover_pages = <<>>
    /\ ordered_indices = <<>>
    /\ text_lens = [i \in 1..Len(pages) |-> MinTextChars + 1]
    /\ excel_loadable = TRUE
    /\ signals = <<>>
    /\ out_pdf = <<>>
    /\ out_csv = <<>>

SpecGreedy == InitGreedy /\ [][Next]_vars

\* record i was assigned page p with a score below 100
TakenByFuzzy(i, p) ==
    /\ df[i].idx \in DOMAIN assignments
    /\ assignments[df[i].idx] = p
    /\ Less(Score0, match_details[df[i].idx].score)
    /\ Less(match_details[df[i].idx].score, Score100)
\* the pages that hold record i's order number
ExactPages(i) == {p \in PageIdx : NormId(i) \in SetOf(pages[p + 1])}
\* an earlier record took, by similarity, the only page that holds the order
\* number of record j, and no page still free at j's turn scores for j
LostToEarlier(j) ==
    /\ NormId(j) # <<>>
    /\ \E i \in RowPos : \E p \in PageIdx :
          /\ i < j
          /\ TakenByFuzzy(i, p)
          /\ ExactPages(j) = {p}
    /\ MatchingPages(NormId(j)) \ TakenBefore(j) = {}

\* C23: the assignment is greedy: when an earlier record has taken, by a
\* fuzzy match, the only page that holds a later record's order number, the
\* page is not given back and the later record ends unmatched.
C23_GreedyNoBacktracking ==
    MatchDone => \A j \in RowPos : LostToEarlier(j) => Unmatched(j)

\* C23 witness: the later record ended unmatched although the earlier record
\* also matches a page that nobody was assigned, so giving that page to the
\* earlier record and the taken page to the later one would match both.
C23_Witness ==
    /\ MatchDone
    /\ use_fuzzy
    /\ \E i, j \in RowPos : \E p, q \in PageIdx :
          /\ i < j
          /\ TakenByFuzzy(i, p)
          /\ ExactPages(j) = {p}
          /\ Unmatched(j)
          /\ q # p
          /\ q \notin Values(assignments)
          /\ Less(Score0, ScoreOn(NormId(i), q))

RECURSIVE AssignedInRecordOrder(_)
\* the pages of the assigned records from position i on, in record order
AssignedInRecordOrder(i) ==
    IF i > Len(df) THEN <<>>
    ELSE (IF df[i].idx \in DOMAIN assignments
          THEN <<assignments[df[i].idx]>> ELSE <<>>) \o AssignedInRecordOrder(i + 1)

\* C24: when the run reaches the reorder step, for every table the loader
\* returned, the final page order holds every page index of the document
\* exactly once: the assigned pages in record order, then the leftover pages
\* in ascending order.
C24_FinalOrderIsPermutation ==
    pc = "ordered" =>
        /\ Len(ordered_indices) = Len(pages)
        /\ SetOf(ordered_indices) = PageIdx
        /\ ordered_indices =
              AssignedInRecordOrder(1) \o sorted(PageIdx \ Values(assignments))

\* n * 10^6 and n * 10^3 as scores, and the whole seconds of a time as a score
Millionfold(n) == [q |-> n, r |-> 0]
Thousandfold(n) == [q |-> n \div 1000, r |-> (n % 1000) * 1000]
WholeSeconds(time) == [q |-> time.sec \div 1000000, r |-> time.sec % 1000000]
\* the part of the score that comes from the date of the match's tier
DateTerm(m) ==
    IF m.doc_date # None THEN Millionfold(m.doc_date[1])
    ELSE IF m.filename_date # None THEN Thousandfold(m.filename_date[1])
    ELSE [q |-> 0, r |-> 0]

\* C25 as stated (checked under SpecPriority): the priority score of a match
\* is the epoch seconds of its in-document date times 10^6 if it has one,
\* else the epoch seconds of its filename date times 10^3 if it has one, else
\* the epoch seconds of its modification time.
C25_ScoreIsDateTermAlone ==
    Scored =>
        \A i \in 1..Len(ret[1]) :
            ret[1][i].priority_score =
                IF NoDate(ret[1][i]) THEN WholeSeconds(ret[1][i].modified_time)
                ELSE DateTerm(ret[1][i])

\* C25 amended: the priority score of a match is the date term of its tier
\* (in-document date times 10^6, else filename date times 10^3, else 0) plus
\* the whole epoch seconds of its modification time.
C25_ScoreIsDateTermPlusMtime ==
    Scored =>
        \A i \in 1..Len(ret[1]) :
            ret[1][i].priority_score =
                BigAdd(DateTerm(ret[1][i]), WholeSeconds(ret[1][i].modified_time))

\* C25 witness: a match with an in-document date and a match with a filename
\* date only were scored, both modified later than the epoch.
C25_Witness ==
    /\ Scored
    /\ \E i, j \in 1..Len(ret[1]) :
          /\ ret[1][i].doc_date # None
          /\ ret[1][i].modified_time.sec > 0
          /\ ret[1][i].priority_score # DateTerm(ret[1][i])
          /\ ret[1][j].doc_date = None
          /\ ret[1][j].filename_date # None
          /\ ret[1][j].modified_time.sec > 0

\* C26 (checked under SpecPriority): for one match and for several alike,
\* decided_by is doc_date when the returned match has an in-document date,
\* filename_date when it has no in-document date but a filename date, and
\* modified_time when it has neither; a single match is returned as it is.
C26_DecidedByTierOfWinner ==
    Selected =>
        /\ (ret[2].best_match.doc_date # None) => ret[2].decided_by = "doc_date"
        /\ (ret[2].best_match.doc_date = None
               /\ ret[2].best_match.filename_date # None)
              => ret[2].decided_by = "filename_date"
        /\ NoDate(ret[2].best_match) => ret[2].decided_by = "modified_time"
        /\ Len(ret[1]) = 1 => ret[2].best_match = ret[1][1]

\* C26 witness: of two matches the second was returned; it has both dates,
\* the first has a filename date only.
C26_Witness ==
    /\ Selected
    /\ Len(ret[1]) = 2
    /\ ret[2].best_match = ret[1][2]
    /\ ret[1][2].doc_date # None
    /\ ret[1][2].filename_date # None
    /\ ret[1][1].doc_date = None
    /\ ret[1][1].filename_date # None
    /\ ret[2].decided_by = "doc_date"

\* the match at position k has the greatest score of the list and is the
\* first of the list with that score
FirstOfGreatest(matches, k) ==
    /\ \A j \in 1..Len(matches) :
          ~BigLess(matches[k].priority_score, matches[j].priority_score)
    /\ \A j \in 1..(k - 1) : matches[j].priority_score # matches[k].priority_score

\* C28 (checked under SpecPriority): for every non-empty list of matches the
\* resolver returns a member whose priority score no other member exceeds,
\* and of several members with the greatest score the one that comes first
\* in the list.
C28_FirstOfGreatestScore ==
    Selected =>
        \E k \in 1..Len(ret[1]) :
            ret[2].best_match = ret[1][k] /\ FirstOfGreatest(ret[1], k)

\* C28 witness: two matches from different files have the same score and the
\* first one was returned.
C28_Witness ==
    /\ Selected
    /\ Len(ret[1]) = 2
    /\ ret[1][1].priority_score = ret[1][2].priority_score
    /\ ret[1][1] # ret[1][2]
    /\ ret[2].best_match = ret[1][1]

\* C27 (checked under SpecSearch): the folder search uses the worker pool
\* only when the folder holds at least 2 documents; the pool then has at most
\* 4 workers and never more workers than documents, and no more chunks are
\* worked on at once than the pool has workers; with fewer than 2 documents
\* no worker runs and a search that is not stopped searches every
\* document itself.
C27_PoolOnlyForTwoOrMore ==
    FolderSearch =>
        /\ spc = "pool" =>
              /\ use_multiprocess
              /\ Len(folder) >= 2
              /\ num_processes(cpu_count, Len(folder)) <= 4
              /\ num_processes(cpu_count, Len(folder)) <= Len(folder)
              /\ Cardinality(running) <= 4
              /\ Cardinality(running) <= Len(folder)
        /\ Len(folder) < 2 =>
              /\ spc # "pool"
              /\ running = {} /\ outq = <<>> /\ killed = {}
              /\ (spc = "returned" /\ ~stop_seen) => searched = Paths(folder)

\* C27 witness: on a machine with 8 processors and a folder of 5 documents
\* four workers are busy at once and a document is still waiting.
C27_Witness ==
    /\ FolderSearch
    /\ spc = "pool"
    /\ cpu_count = 8
    /\ Len(folder) = 5
    /\ Cardinality(running) = 4
    /\ todo # <<>>

OutputNames == call.fn = "get_output_filenames"
\* the version of a name that get_output_filenames itself writes: 1 for the
\* unversioned name, n for _v<n> with n >= 2 written without leading zeros
OwnVersion(f) ==
    IF f.stem = "plain" THEN 1
    ELSE IF f.stem = "versioned" /\ int(f.digits) >= 2 /\ str(int(f.digits)) = f.digits
         THEN int(f.digits)
    ELSE 0
\* the highest version among the outputs the directory held at first
VersionsBefore ==
    IF call.base_dir = {} THEN 0
    ELSE CHOOSE v \in {OwnVersion(f) : f \in call.base_dir} :
            \A f \in call.base_dir : OwnVersion(f) <= v
\* the name of version n: unversioned, then _v2, _v3, ...
NameOfVersion(n) ==
    IF n = 1 THEN FileName("plain", <<>>) ELSE FileName("versioned", str(n))

\* C29 (checked under SpecOutput): in a sequence of calls on the same
\* directory and day, each followed by the writing of the returned PDF, no
\* returned PDF path names a file that exists already, and the versions go
\* up one by one from the outputs already there: the unversioned name first,
\* then _v2, _v3 and so on.
C29_FreshNamesInVersionOrder ==
    OutputNames =>
        \A k \in 1..Len(ret) :
            /\ ret[k].pdf_path \notin call.base_dir
            /\ \A j \in 1..(k - 1) : ret[j].pdf_path # ret[k].pdf_path
            /\ ret[k].pdf_path = NameOfVersion(VersionsBefore + k)

Parsed == call.fn = "get_page_ranges_str" /\ Len(ret) = 2
\* t is strictly ascending, so it has no repeats
Ascending(t) == \A i \in 1..(Len(t) - 1) : t[i] < t[i + 1]

\* C30 (checked under SpecPageRanges): for every non-empty list P of positive
\* page numbers, _parse_page_ranges applied to the string that
\* get_page_ranges_str builds from P gives the distinct elements of P in
\* ascending order.
C30_RangesRoundTrip ==
    Parsed =>
        /\ SetOf(ret[2]) = SetOf(call.page_numbers)
        /\ Ascending(ret[2])

\* C30 witness: a list with a repeat, not in ascending order, whose string
\* holds a range with a two-digit end and a single page beside it.
C30_Witness ==
    /\ Parsed
    /\ \E i, j \in 1..Len(call.page_numbers) :
          i < j /\ call.page_numbers[i] = call.page_numbers[j]
    /\ ~Ascending(call.page_numbers)
    /\ ret[1] = <<"1", ",", "9", "-", "1", "0">>
    /\ ret[2] = <<1, 9, 10>>

====
